---- MODULE Spec2Model ----
(***************************************************************************)
(* RectangularSensorVisualizer (lib/rectangular/rectangular-sensor-        *)
(* visualizer.js): the visualizer that maps each entity carrying a         *)
(* rectangular sensor description to one RectangularPyramidSensorVolume    *)
(* primitive of the scene's primitive container.                           *)
(*                                                                         *)
(* Entities are identified by their id (1..NumEntities).  The entity data  *)
(* (the properties the visualizer samples) belongs to the host and is      *)
(* edited by the host at any moment; collection notifications carry        *)
(* arbitrary added / removed / changed groups.                             *)
(***************************************************************************)
EXTENDS Integers, Sequences, FiniteSets, TLC

\* ------------------------------------------------------------------ bounds
NumEntities == 2
MaxTime == 2
MaxVolumes == 2
MaxEdits == 1
MaxGroup == 1

Ids == 1..NumEntities
\* update's argument: 0 stands for a call without a time value
TimeInputs == 0..MaxTime
VolumeIds == 1..MaxVolumes

Range(s) == {s[i] : i \in DOMAIN s}

\* duplicate-free sequences over S of length at most n
RECURSIVE SeqsUpTo(_, _)
SeqsUpTo(S, n) ==
    IF n = 0 THEN {<<>>}
    ELSE LET shorter == SeqsUpTo(S, n - 1)
         IN shorter \cup {Append(s, x) : s \in shorter, x \in S}

\* the groups of a notification
Groups == {s \in SeqsUpTo(Ids, MaxGroup) : Cardinality(Range(s)) = Len(s)}

\* entityCollection.values
Values == {s \in SeqsUpTo(Ids, NumEntities) : Cardinality(Range(s)) = Len(s)}

\* ------------------------------------------------------- the host's entities
\* entity._rectangularSensor: absent; a description with every property unset;
\* one whose show property is true, or false; one with every shape and material
\* property set; one whose xHalfAngle property throws when it is sampled
SensorValues == {"none", "default", "shown", "hidden", "custom", "broken"}
\* entity._position: absent, a constant point, or a sampled property that has
\* no sample at the first time
PositionValues == {"none", "p0", "p1", "late"}
\* entity._orientation, likewise
OrientationValues == {"none", "q0", "q1", "late"}

DefaultEntity ==
    [sensor |-> "default", position |-> "p0", orientation |-> "q0",
     isShowing |-> TRUE, availableFrom |-> 1]

EntityValues ==
    [sensor : SensorValues, position : PositionValues,
     orientation : OrientationValues, isShowing : BOOLEAN,
     availableFrom : {1, 2}]

VARIABLES
    ent,                  \* the host's entity data, by entity id
    edits,                \* number of edits the host has made
    phase,                \* "new", "failed", "live", "destroyed"
    methods,              \* the instance's functions: "prototype", or
                          \* "destroyed" once destroyObject replaced them
    subscribed,           \* the listener is registered on collectionChanged
    entitiesToVisualize,  \* this._entitiesToVisualize.values
    hash,                 \* this._hash: entity id -> data
    primitives,           \* scene.primitives: the volumes in the container
    volumes,              \* the RectangularPyramidSensorVolume objects
    nextVolume,           \* the next volume to be constructed
    addCount,             \* calls of primitives.add, by volume
    removeCount,          \* calls of primitives.remove, by volume
    everHidden,           \* the volumes an update has hidden
    last                  \* the call that produced this state

vars == <<ent, edits, phase, methods, subscribed, entitiesToVisualize, hash,
          primitives, volumes, nextVolume, addCount, removeCount, everHidden,
          last>>

\* what the visualizer owns or writes
viz == <<entitiesToVisualize, hash, primitives, volumes, nextVolume, addCount,
         removeCount, everHidden>>

\* ------------------------------------------------------ values of the state
NoData == [defined |-> FALSE, primitive |-> 0,
           position |-> "undefined", orientation |-> "undefined"]

IdentityMatrix == [rotation |-> "identity", translation |-> "zero"]

\* the shape and material fields as the volume's constructor leaves them
ConstructedShape ==
    [xHalfAngle |-> "constructed", yHalfAngle |-> "constructed",
     radius |-> "constructed", lateralSurfaceMaterial |-> "constructed",
     intersectionColor |-> "constructed", intersectionWidth |-> "constructed"]

NoVolume == [state |-> "none", id |-> 0, show |-> FALSE,
             modelMatrix |-> IdentityMatrix, shape |-> ConstructedShape]

\* new RectangularPyramidSensorVolume()
NewVolume == [state |-> "live", id |-> 0, show |-> TRUE,
              modelMatrix |-> IdentityMatrix, shape |-> ConstructedShape]

\* the last call: its name, its arguments (time; the missing argument, if one
\* is missing; the groups of a notification), whether it threw, and the volumes
\* it took out of the container
Call(op, time, threw) ==
    [op |-> op, time |-> time, missing |-> "", threw |-> threw,
     added |-> {}, removed |-> {}, changed |-> {}, torn |-> {}]

NoCall == Call("none", 0, FALSE)

\* the visualizer's side of the state, as one record the handlers thread through
State ==
    [entities |-> entitiesToVisualize, hash |-> hash, primitives |-> primitives,
     volumes |-> volumes, next |-> nextVolume, addCount |-> addCount,
     removeCount |-> removeCount, everHidden |-> everHidden,
     threw |-> FALSE, full |-> FALSE]

Store(st) ==
    /\ entitiesToVisualize' = st.entities
    /\ hash' = st.hash
    /\ primitives' = st.primitives
    /\ volumes' = st.volumes
    /\ nextVolume' = st.next
    /\ addCount' = st.addCount
    /\ removeCount' = st.removeCount
    /\ everHidden' = st.everHidden

\* the volumes a call took out of the container
Torn(st) == primitives \ st.primitives

\* ------------------------------------------------------------ the property API
sensorDefined(e) == ent[e].sensor # "none"

\* Property.getValueOrDefault(rectangularSensorGraphics._show, time, true)
sensorShow(e, time) == ent[e].sensor # "hidden"

\* entity.isAvailable(time)
isAvailable(e, time) == time >= ent[e].availableFrom

\* Property.getValueOrUndefined(entity._position, time, cachedPosition)
positionAt(e, time) ==
    CASE ent[e].position = "none" -> "undefined"
      [] ent[e].position = "late" -> IF time >= 2 THEN "p1" ELSE "undefined"
      [] OTHER -> ent[e].position

\* Property.getValueOrUndefined(entity._orientation, time, cachedOrientation)
orientationAt(e, time) ==
    CASE ent[e].orientation = "none" -> "undefined"
      [] ent[e].orientation = "late" -> IF time >= 2 THEN "q1" ELSE "undefined"
      [] OTHER -> ent[e].orientation

\* the defaults of lines 16-18 and of the calls of lines 115-120
defaultIntersectionColor == "WHITE"
defaultIntersectionWidth == "1.0"
defaultRadius == "POSITIVE_INFINITY"
PI_OVER_TWO == "PI_OVER_TWO"

\* Property.getValueOrDefault(property, time, default): the value of a set
\* property, the default for an unset one
getValueOrDefault(e, value, default) ==
    IF ent[e].sensor = "custom" THEN value ELSE default

\* MaterialProperty.getValue(time, property, result): the material of a set
\* property, the host's colour material for an unset one
materialAt(e, time) ==
    IF ent[e].sensor = "custom" THEN "material1" ELSE "ColorMaterial"

\* sampling rectangularSensorGraphics._xHalfAngle throws
shapeThrowsAt(e, time) == ent[e].sensor = "broken"

\* Matrix4.fromRotationTranslation(Matrix3.fromQuaternion(orientation), position)
fromRotationTranslation(orientation, position) ==
    [rotation |-> orientation, translation |-> position]

\* ------------------------------------------------------------ AssociativeArray
AssocSet(values, key) ==
    IF key \in Range(values) THEN values ELSE Append(values, key)

AssocRemove(values, key) == SelectSeq(values, LAMBDA x : x # key)

\* ------------------------------------------------------------ removePrimitive

\* removePrimitive(entity, hash, primitives): tears down the entity's data, if
\* any: the volume leaves the container and is destroyed, the data is deleted
removePrimitive(st, entity) ==
    LET data == st.hash[entity]
    IN IF ~data.defined THEN st
       ELSE [st EXCEPT !.primitives = @ \ {data.primitive},
                       !.removeCount[data.primitive] = @ + 1,
                       !.volumes[data.primitive] =
                           [NoVolume EXCEPT !.state = "destroyed", !.id = entity],
                       !.hash[entity] = NoData]

\* ------------------------------------------------------- _onCollectionChanged
\* qualifies with a fault: the orientation is not tested
qualifiesNoOrientation(e) ==
    /\ sensorDefined(e)
    /\ ent[e].position # "none"

\* defined(entity._rectangularSensor) && defined(entity._position) &&
\* defined(entity._orientation)
qualifies(e) ==
    /\ sensorDefined(e)
    /\ ent[e].position # "none"
    /\ ent[e].orientation # "none"

\* changedStep with a fault: the data is torn down, the entity stays tracked
changedStepKeep(st, entity) ==
    IF qualifies(entity)
    THEN [st EXCEPT !.entities = AssocSet(@, entity)]
    ELSE removePrimitive(st, entity)

\* removedStep with a fault: removal is conditional, as in the changed group
removedStepQualified(st, entity) ==
    IF qualifies(entity) THEN st
    ELSE LET removed == removePrimitive(st, entity)
         IN [removed EXCEPT !.entities = AssocRemove(@, entity)]

\* removedStep with a fault: the entity is dropped, its data is left behind
removedStepForget(st, entity) ==
    [st EXCEPT !.entities = AssocRemove(@, entity)]

\* addedStep with a fault: the volume is created as soon as the entity is added
addedStepEager(st, entity) ==
    IF qualifies(entity) /\ ~st.hash[entity].defined /\ st.next <= MaxVolumes
    THEN [st EXCEPT !.entities = AssocSet(@, entity),
                    !.next = @ + 1,
                    !.volumes[st.next] = [NewVolume EXCEPT !.id = entity],
                    !.primitives = @ \cup {st.next},
                    !.addCount[st.next] = @ + 1,
                    !.hash[entity] = [defined |-> TRUE, primitive |-> st.next,
                                      position |-> "undefined",
                                      orientation |-> "undefined"]]
    ELSE st

\* addedStep with a fault: the entity is appended whether or not it is tracked
addedStepDuplicate(st, entity) ==
    IF qualifies(entity)
    THEN [st EXCEPT !.entities = Append(@, entity)]
    ELSE st

\* changedStep with a fault: a qualifying entity is refreshed by tearing its
\* data down
changedStepReset(st, entity) ==
    LET removed == removePrimitive(st, entity)
    IN IF qualifies(entity)
       THEN [removed EXCEPT !.entities = AssocSet(@, entity)]
       ELSE [removed EXCEPT !.entities = AssocRemove(@, entity)]

addedStep(st, entity) ==
    IF qualifies(entity)
    THEN [st EXCEPT !.entities = AssocSet(@, entity)]
    ELSE st

changedStep(st, entity) ==
    IF qualifies(entity)
    THEN [st EXCEPT !.entities = AssocSet(@, entity)]
    ELSE LET removed == removePrimitive(st, entity)
         IN [removed EXCEPT !.entities = AssocRemove(@, entity)]

removedStep(st, entity) ==
    LET removed == removePrimitive(st, entity)
    IN [removed EXCEPT !.entities = AssocRemove(@, entity)]

RECURSIVE addedLoop(_, _, _)
addedLoop(st, added, i) ==
    IF i < 1 THEN st ELSE addedLoop(addedStep(st, added[i]), added, i - 1)

RECURSIVE changedLoop(_, _, _)
changedLoop(st, changed, i) ==
    IF i < 1 THEN st ELSE changedLoop(changedStep(st, changed[i]), changed, i - 1)

RECURSIVE removedLoop(_, _, _)
removedLoop(st, removed, i) ==
    IF i < 1 THEN st ELSE removedLoop(removedStep(st, removed[i]), removed, i - 1)

\* onCollectionChanged with a fault: the removed group is processed first
onCollectionChangedRemovedFirst(st, added, removed, changed) ==
    LET afterRemoved == removedLoop(st, removed, Len(removed))
        afterAdded == addedLoop(afterRemoved, added, Len(added))
    IN changedLoop(afterAdded, changed, Len(changed))

onCollectionChanged(st, added, removed, changed) ==
    LET afterAdded == addedLoop(st, added, Len(added))
        afterChanged == changedLoop(afterAdded, changed, Len(changed))
    IN removedLoop(afterChanged, removed, Len(removed))

\* --------------------------------------------------------------------- update
\* reading rectangularSensorGraphics._show of an entity whose sensor
\* description is gone is a TypeError; the && before it short-circuits
throwsAt(e, time) ==
    /\ ent[e].isShowing
    /\ isAvailable(e, time)
    /\ ~sensorDefined(e)

\* showAt with a fault: the availability is not tested
showAtNoAvailability(e, time) ==
    /\ ent[e].isShowing
    /\ sensorShow(e, time)
    /\ positionAt(e, time) # "undefined"
    /\ orientationAt(e, time) # "undefined"

showAt(e, time) ==
    /\ ent[e].isShowing
    /\ isAvailable(e, time)
    /\ sensorShow(e, time)
    /\ positionAt(e, time) # "undefined"
    /\ orientationAt(e, time) # "undefined"

\* hideEntity with a fault: a hidden entity loses its volume
hideEntityRemove(st, e) == removePrimitive(st, e)

hideEntity(st, e) ==
    LET data == st.hash[e]
    IN IF data.defined
       THEN [st EXCEPT !.volumes[data.primitive].show = FALSE,
                       !.everHidden = @ \cup {data.primitive}]
       ELSE st

\* createData with a fault: a volume is made whether or not the entity has one
createDataAlways(st, e) ==
    IF st.next > MaxVolumes THEN [st EXCEPT !.full = TRUE]
    ELSE LET primitive == st.next
         IN [st EXCEPT !.next = @ + 1,
                       !.volumes[primitive] = [NewVolume EXCEPT !.id = e],
                       !.primitives = @ \cup {primitive},
                       !.addCount[primitive] = @ + 1,
                       !.hash[e] = [defined |-> TRUE, primitive |-> primitive,
                                    position |-> "undefined",
                                    orientation |-> "undefined"]]

\* createData with a fault: primitives.add runs outside the test for a new volume
createDataReadd(st, e) ==
    IF st.hash[e].defined
    THEN [st EXCEPT !.primitives = @ \cup {st.hash[e].primitive},
                    !.addCount[st.hash[e].primitive] = @ + 1]
    ELSE IF st.next > MaxVolumes THEN [st EXCEPT !.full = TRUE]
    ELSE LET primitive == st.next
         IN [st EXCEPT !.next = @ + 1,
                       !.volumes[primitive] = [NewVolume EXCEPT !.id = e],
                       !.primitives = @ \cup {primitive},
                       !.addCount[primitive] = @ + 1,
                       !.hash[e] = [defined |-> TRUE, primitive |-> primitive,
                                    position |-> "undefined",
                                    orientation |-> "undefined"]]

\* createData with a fault: the new volume is never added to the container
createDataNoAdd(st, e) ==
    IF st.hash[e].defined THEN st
    ELSE IF st.next > MaxVolumes THEN [st EXCEPT !.full = TRUE]
    ELSE LET primitive == st.next
         IN [st EXCEPT !.next = @ + 1,
                       !.volumes[primitive] = [NewVolume EXCEPT !.id = e],
                       !.hash[e] = [defined |-> TRUE, primitive |-> primitive,
                                    position |-> "undefined",
                                    orientation |-> "undefined"]]

createData(st, e) ==
    IF st.hash[e].defined THEN st
    ELSE IF st.next > MaxVolumes THEN [st EXCEPT !.full = TRUE]
    ELSE LET primitive == st.next
         IN [st EXCEPT !.next = @ + 1,
                       !.volumes[primitive] = [NewVolume EXCEPT !.id = e],
                       !.primitives = @ \cup {primitive},
                       !.addCount[primitive] = @ + 1,
                       !.hash[e] = [defined |-> TRUE, primitive |-> primitive,
                                    position |-> "undefined",
                                    orientation |-> "undefined"]]

\* applyTransform with a fault: the sampled pose is not cached
applyTransformNoCache(st, e, time) ==
    LET data == st.hash[e]
        position == positionAt(e, time)
        orientation == orientationAt(e, time)
    IN IF position # data.position \/ orientation # data.orientation
       THEN [st EXCEPT !.volumes[data.primitive].modelMatrix =
                           fromRotationTranslation(orientation, position)]
       ELSE st

\* applyTransform with a fault: only the position is compared
applyTransformPositionOnly(st, e, time) ==
    LET data == st.hash[e]
        position == positionAt(e, time)
        orientation == orientationAt(e, time)
    IN IF position # data.position
       THEN [st EXCEPT !.volumes[data.primitive].modelMatrix =
                           fromRotationTranslation(orientation, position),
                       !.hash[e].position = position,
                       !.hash[e].orientation = orientation]
       ELSE st

applyTransform(st, e, time) ==
    LET data == st.hash[e]
        position == positionAt(e, time)
        orientation == orientationAt(e, time)
    IN IF position # data.position \/ orientation # data.orientation
       THEN [st EXCEPT !.volumes[data.primitive].modelMatrix =
                           fromRotationTranslation(orientation, position),
                       !.hash[e].position = position,
                       !.hash[e].orientation = orientation]
       ELSE st

\* applyShape with a fault: the width falls back to the default radius
applyShapeWrongDefault(st, e, time) ==
    LET primitive == st.hash[e].primitive
        shown == [st EXCEPT !.volumes[primitive].show = TRUE]
    IN IF shapeThrowsAt(e, time) THEN [shown EXCEPT !.threw = TRUE]
       ELSE [shown EXCEPT !.volumes[primitive].shape =
                [xHalfAngle |-> getValueOrDefault(e, "x1", PI_OVER_TWO),
                 yHalfAngle |-> getValueOrDefault(e, "y1", PI_OVER_TWO),
                 radius |-> getValueOrDefault(e, "r1", defaultRadius),
                 lateralSurfaceMaterial |-> materialAt(e, time),
                 intersectionColor |->
                     getValueOrDefault(e, "color1", defaultIntersectionColor),
                 intersectionWidth |->
                     getValueOrDefault(e, "w1", defaultRadius)]]

\* lines 114-120: show, then the shape and material parameters; an error
\* thrown by the first sampling leaves show set and the parameters as they were
applyShape(st, e, time) ==
    LET primitive == st.hash[e].primitive
        shown == [st EXCEPT !.volumes[primitive].show = TRUE]
    IN IF shapeThrowsAt(e, time) THEN [shown EXCEPT !.threw = TRUE]
       ELSE [shown EXCEPT !.volumes[primitive].shape =
                [xHalfAngle |-> getValueOrDefault(e, "x1", PI_OVER_TWO),
                 yHalfAngle |-> getValueOrDefault(e, "y1", PI_OVER_TWO),
                 radius |-> getValueOrDefault(e, "r1", defaultRadius),
                 lateralSurfaceMaterial |-> materialAt(e, time),
                 intersectionColor |->
                     getValueOrDefault(e, "color1", defaultIntersectionColor),
                 intersectionWidth |->
                     getValueOrDefault(e, "w1", defaultIntersectionWidth)]]

updateEntity(st, e, time) ==
    IF ~showAt(e, time) THEN hideEntity(st, e)
    ELSE LET created == createData(st, e)
         IN IF created.full THEN created
            ELSE applyShape(applyTransform(created, e, time), e, time)

RECURSIVE updateLoop(_, _, _, _)
updateLoop(st, i, len, time) ==
    IF i > len \/ st.full \/ st.threw THEN st
    ELSE IF throwsAt(st.entities[i], time) THEN [st EXCEPT !.threw = TRUE]
    ELSE updateLoop(updateEntity(st, st.entities[i], time), i + 1, len, time)

\* updateRejects with a fault: the check of time is missing
updateNeverRejects(time) == FALSE

\* if (!defined(time)) throw new DeveloperError('time is required.')
updateRejects(time) == time = 0

\* -------------------------------------------------------------------- destroy
\* destroyLoop with a fault: the loop stops one short of the first entity
RECURSIVE destroyLoopSkipFirst(_, _)
destroyLoopSkipFirst(st, i) ==
    IF i < 2 THEN st
    ELSE destroyLoopSkipFirst(removePrimitive(st, st.entities[i]), i - 1)

RECURSIVE destroyLoop(_, _)
destroyLoop(st, i) ==
    IF i < 1 THEN st ELSE destroyLoop(removePrimitive(st, st.entities[i]), i - 1)

\* isDestroyed(): the prototype's answer is false; destroyObject(this) replaces
\* it on the instance by a function returning true
isDestroyed == methods = "destroyed"

\* ------------------------------------------------------------------- actions
Init ==
    /\ ent = [e \in Ids |-> DefaultEntity]
    /\ edits = 0
    /\ phase = "new"
    /\ methods = "prototype"
    /\ subscribed = FALSE
    /\ entitiesToVisualize = <<>>
    /\ hash = [e \in Ids |-> NoData]
    /\ primitives = {}
    /\ volumes = [p \in VolumeIds |-> NoVolume]
    /\ nextVolume = 1
    /\ addCount = [p \in VolumeIds |-> 0]
    /\ removeCount = [p \in VolumeIds |-> 0]
    /\ everHidden = {}
    /\ last = NoCall

\* the host edits one property of one entity
SetEntity(e, value) ==
    /\ phase \in {"new", "live"}
    /\ edits < MaxEdits
    /\ Cardinality({f \in DOMAIN value : value[f] # ent[e][f]}) = 1
    /\ ent' = [ent EXCEPT ![e] = value]
    /\ edits' = edits + 1
    /\ last' = Call("edit", 0, FALSE)
    /\ UNCHANGED <<phase, methods, subscribed, viz>>

\* the constructor's argument checks fail: nothing has been set up
constructFails(scene, entityCollection) ==
    /\ phase' = "failed"
    /\ UNCHANGED <<subscribed, viz>>

\* new RectangularSensorVisualizer(scene, entityCollection)
Construct(scene, entityCollection) ==
    /\ phase = "new"
    /\ IF ~scene \/ ~entityCollection.defined
       THEN constructFails(scene, entityCollection)
       ELSE /\ subscribed' = TRUE
            /\ phase' = "live"
            /\ Store(onCollectionChanged(State, entityCollection.values,
                                         <<>>, <<>>))
    /\ last' = [Call("construct", 0, ~scene \/ ~entityCollection.defined)
                    EXCEPT !.missing = IF ~scene THEN "scene"
                                       ELSE IF ~entityCollection.defined
                                            THEN "entityCollection" ELSE "",
                           !.added = Range(entityCollection.values)]
    /\ UNCHANGED <<ent, edits, methods>>

\* the collection raises collectionChanged: the registered listener runs
CollectionChanged(added, removed, changed) ==
    /\ subscribed
    /\ LET st == onCollectionChanged(State, added, removed, changed)
       IN /\ Store(st)
          /\ last' = [Call("changed", 0, FALSE) EXCEPT
                          !.added = Range(added), !.removed = Range(removed),
                          !.changed = Range(changed), !.torn = Torn(st)]
    /\ UNCHANGED <<ent, edits, phase, methods, subscribed>>

Update(time) ==
    /\ phase = "live"
    /\ IF updateRejects(time)
       THEN /\ last' = [Call("update", time, TRUE) EXCEPT !.missing = "time"]
            /\ UNCHANGED viz
       ELSE LET st == updateLoop(State, 1, Len(entitiesToVisualize), time)
            IN /\ ~st.full
               /\ Store(st)
               /\ last' = [Call("update", time, st.threw) EXCEPT
                               !.missing = IF time = 0 THEN "time" ELSE ""]
    /\ UNCHANGED <<ent, edits, phase, methods, subscribed>>

\* destroy(): the loop, then destroyObject(this); the listener stays registered
Destroy ==
    /\ phase = "live"
    /\ LET st == destroyLoop(State, Len(entitiesToVisualize))
       IN /\ Store(st)
          /\ last' = [Call("destroy", 0, FALSE) EXCEPT !.torn = Torn(st)]
    /\ phase' = "destroyed"
    /\ methods' = "destroyed"
    /\ UNCHANGED <<ent, edits, subscribed>>

\* CallDestroyed with a fault: the functions of a destroyed visualizer still run
CallDestroyedRuns(op) ==
    /\ methods = "destroyed"
    /\ LET st == updateLoop(State, 1, Len(entitiesToVisualize), 1)
       IN /\ ~st.full
          /\ Store(st)
          /\ last' = Call(op, 1, st.threw)
    /\ UNCHANGED <<ent, edits, phase, methods, subscribed>>

\* update or destroy on a destroyed visualizer: destroyObject replaced every
\* function of the instance by one that throws
CallDestroyed(op) ==
    /\ methods = "destroyed"
    /\ last' = Call(op, 0, TRUE)
    /\ UNCHANGED <<ent, edits, phase, methods, subscribed, viz>>

\* entityCollection: missing, or a collection with its values
CollectionInputs ==
    {[defined |-> FALSE, values |-> <<>>]}
        \cup {[defined |-> TRUE, values |-> s] : s \in Values}

Next ==
    \/ \E e \in Ids, value \in EntityValues : SetEntity(e, value)
    \/ \E scene \in BOOLEAN, c \in CollectionInputs : Construct(scene, c)
    \/ \E a \in Groups, r \in Groups, c \in Groups : CollectionChanged(a, r, c)
    \/ \E time \in TimeInputs : Update(time)
    \/ Destroy
    \/ \E op \in {"update", "destroy"} : CallDestroyed(op)

Spec == Init /\ [][Next]_vars

\* ================================================================== claims
Tracked == Range(entitiesToVisualize)

\* the volumes in the container tagged with entity e
Tagged(e) == {p \in primitives : volumes[p].id = e}

Returned(op) == last.op = op /\ ~last.threw

PoseDefined(e, time) ==
    /\ positionAt(e, time) # "undefined"
    /\ orientationAt(e, time) # "undefined"

\* the entity carries a sensor description, a position and an orientation
Qualified(e) ==
    /\ ent[e].sensor # "none"
    /\ ent[e].position # "none"
    /\ ent[e].orientation # "none"

\* show as update computes it
Shown(e, time) ==
    /\ ent[e].isShowing
    /\ isAvailable(e, time)
    /\ ent[e].sensor # "hidden"
    /\ PoseDefined(e, time)

\* C1 as stated: after update(time) returns, every tracked entity that is
\* showing, available at time and has a defined position and orientation at
\* time has exactly one volume in the container tagged with it; and the
\* container never holds more than one volume per entity.
C1_OneVolumePerVisibleEntity ==
    /\ Returned("update") =>
           \A e \in Tracked :
               (ent[e].isShowing /\ isAvailable(e, last.time)
                    /\ PoseDefined(e, last.time))
                   => Cardinality(Tagged(e)) = 1
    /\ \A e \in Ids : Cardinality(Tagged(e)) <= 1

\* C1 amended: the same, for the entities whose sensor description's show
\* property is also true (or unset) at time.
C1_OneVolumePerShownEntity ==
    /\ Returned("update") =>
           \A e \in Tracked :
               (ent[e].isShowing /\ isAvailable(e, last.time)
                    /\ ent[e].sensor # "hidden" /\ PoseDefined(e, last.time))
                   => Cardinality(Tagged(e)) = 1
    /\ \A e \in Ids : Cardinality(Tagged(e)) <= 1

C1_Witness ==
    /\ Returned("update")
    /\ \E e \in Tracked : Shown(e, last.time) /\ Cardinality(Tagged(e)) = 1
    /\ \E e \in Tracked : ~Shown(e, last.time) /\ Tagged(e) = {}

\* C2: at the end of a notification, an entity of the changed group that no
\* longer qualifies is not tracked, has no data, and has no volume in the
\* container.
C2_DisqualifiedIsTornDown ==
    last.op = "changed" =>
        \A e \in last.changed :
            ~Qualified(e) =>
                /\ e \notin Tracked
                /\ ~hash[e].defined
                /\ \A p \in VolumeIds : volumes[p].id = e => p \notin primitives

C2_Witness ==
    /\ last.op = "changed"
    /\ \E e \in last.changed, p \in last.torn :
           ~Qualified(e) /\ volumes[p].id = e /\ volumes[p].state = "destroyed"

\* C3: after a notification, every entity of its removed group is untracked,
\* has no data and no volume in the container, whether or not it qualifies;
\* a container holding only that entity's volume is empty afterwards.
C3_RemovedIsTornDown ==
    [][last'.op = "changed" =>
           \A e \in last'.removed :
               /\ e \notin Tracked'
               /\ ~hash'[e].defined
               /\ Tagged(e)' = {}
               /\ (hash[e].defined /\ primitives = {hash[e].primitive})
                      => primitives' = {}]_vars

C3_Witness ==
    /\ last.op = "changed"
    /\ primitives = {}
    /\ \E e \in last.removed, p \in last.torn :
           Qualified(e) /\ volumes[p].id = e /\ last.torn = {p}

\* C4: an update that returns keeps the volume of every tracked entity that
\* has one: the same volume stays in the container, no other volume is made
\* for the entity, and its show flag is the entity's show at that time (false
\* when hidden, true again when shown later).
C4_HideAndShowReuseVolume ==
    [][(last'.op = "update" /\ ~last'.threw) =>
           \A e \in Tracked :
               hash[e].defined =>
                   /\ hash'[e].defined
                   /\ hash'[e].primitive = hash[e].primitive
                   /\ hash[e].primitive \in primitives'
                   /\ Tagged(e)' = {hash[e].primitive}
                   /\ volumes'[hash[e].primitive].show = Shown(e, last'.time)]_vars

C4_Witness ==
    /\ Returned("update")
    /\ \E e \in Tracked :
           /\ hash[e].defined
           /\ hash[e].primitive \in everHidden
           /\ hash[e].primitive \in primitives
           /\ volumes[hash[e].primitive].show

\* C5: after destroy() no volume of the visualizer is in the container, and
\* isDestroyed() is true from then on and false before.
C5_DestroyRemovesAll ==
    /\ (last.op = "destroy" /\ ~last.threw) =>
           /\ primitives = {}
           /\ \A p \in VolumeIds : volumes[p].state # "live"
    /\ isDestroyed = (phase = "destroyed")

C5_Witness ==
    /\ last.op = "destroy"
    /\ ~last.threw
    /\ Cardinality(last.torn) = 2

\* C6 as stated: once destroy() has run, a collection change no longer reaches
\* the visualizer: its set of tracked entities and its data stay as they are.
C6_DestroyUnsubscribes ==
    [][phase = "destroyed" =>
           /\ entitiesToVisualize' = entitiesToVisualize
           /\ hash' = hash]_vars

\* C7: every entity that has data is tracked.
C7_DataOnlyForTracked ==
    \A e \in Ids : hash[e].defined => e \in Tracked

C7_Witness ==
    /\ \E e \in Tracked : hash[e].defined
    /\ \E e \in Ids : e \notin Tracked /\ \E p \in VolumeIds :
           volumes[p].id = e /\ volumes[p].state = "destroyed"

C9_LazyCreation ==
    [][/\ \A e \in Ids :
              /\ (hash'[e].defined /\ ~hash[e].defined) =>
                     /\ last'.op = "update"
                     /\ e \in Tracked
                     /\ Shown(e, last'.time)
              /\ (last'.op = "update" /\ ~hash[e].defined
                      /\ ~Shown(e, last'.time)) =>
                     /\ ~hash'[e].defined
                     /\ Tagged(e)' = {}
       /\ ~(primitives' \subseteq primitives) => last'.op = "update"
       /\ nextVolume' # nextVolume => last'.op = "update"]_vars

C9_Witness ==
    /\ Returned("update")
    /\ \E e \in Tracked : ~Shown(e, last.time) /\ ~hash[e].defined
    /\ \E e \in Tracked : hash[e].defined /\ addCount[hash[e].primitive] = 1

\* C10: a constructor call without a scene or without an entity collection
\* throws with no listener registered and nothing set up; an update call
\* without a time throws and leaves the tracked set, the data, the container
\* and every volume as they were.
C10_InvalidArgumentNoEffect ==
    [][/\ (last'.op = "construct" /\ last'.missing # "") =>
              /\ last'.threw
              /\ ~subscribed'
              /\ UNCHANGED viz
       /\ (last'.op = "update" /\ last'.missing = "time") =>
              /\ last'.threw
              /\ UNCHANGED viz]_vars

C10_Witness ==
    /\ last.op = "update"
    /\ last.missing = "time"
    /\ last.threw
    /\ phase = "live"
    /\ \E p \in primitives : volumes[p].show

\* C11: in the state an update(time) that returned leaves, a second
\* update(time) on the same entity data changes nothing: no volume is made, no
\* transform is recomputed (every shown entity's cached pose already equals
\* the sampled one), and the fields it writes again keep their values.
C11_SecondUpdateChangesNothing ==
    (Returned("update") /\ phase = "live") =>
        /\ updateLoop(State, 1, Len(entitiesToVisualize), last.time) = State
        /\ \A e \in Tracked :
               Shown(e, last.time) =>
                   /\ hash[e].position = positionAt(e, last.time)
                   /\ hash[e].orientation = orientationAt(e, last.time)

C11_Witness ==
    /\ Returned("update")
    /\ phase = "live"
    /\ \E e \in Tracked :
           /\ Shown(e, last.time)
           /\ hash[e].defined
           /\ volumes[hash[e].primitive].shape # ConstructedShape
    /\ \E e \in Tracked : ~Shown(e, last.time) /\ hash[e].defined

\* C12: delivering the notification just delivered once more, with the
\* entities unchanged, leaves the tracked entities, the data and the container
\* as they are; no entity is tracked twice, and every volume a notification
\* takes out of the container was in it and is taken out once.
C12_NotificationIdempotent ==
    /\ last.op = "changed" =>
           /\ \A a \in Groups, r \in Groups, c \in Groups :
                  (Range(a) = last.added /\ Range(r) = last.removed
                       /\ Range(c) = last.changed)
                      => onCollectionChanged(State, a, r, c) = State
           /\ \A p \in last.torn : addCount[p] = 1 /\ removeCount[p] = 1
    /\ Cardinality(Tracked) = Len(entitiesToVisualize)

C12_Witness ==
    /\ last.op = "changed"
    /\ last.torn # {}
    /\ \E e \in last.added : e \in Tracked /\ hash[e].defined

\* C13 as stated: right after construction the tracked entities are the
\* entities of the collection that carry a sensor description, a position and
\* an orientation; after a notification, an entity of its added group is
\* tracked iff it qualifies by that rule.
C13_AddedTrackedIffQualified ==
    /\ Returned("construct") =>
           Tracked = {e \in last.added : Qualified(e)}
    /\ last.op = "changed" =>
           \A e \in last.added : (e \in Tracked) = Qualified(e)

\* C13 amended: the same at construction; after a notification, an entity of
\* its added group that was not tracked before and is not in its removed group
\* is tracked iff it qualifies.
C13_NewlyAddedTrackedIffQualified ==
    [][/\ (last'.op = "construct" /\ ~last'.threw) =>
              /\ subscribed'
              /\ Tracked' = {e \in last'.added : Qualified(e)}
       /\ last'.op = "changed" =>
              \A e \in last'.added :
                  (e \notin Tracked /\ e \notin last'.removed)
                      => ((e \in Tracked') = Qualified(e))]_vars

C13_Witness ==
    /\ Returned("construct")
    /\ \E e \in last.added : Qualified(e) /\ e \in Tracked
    /\ \E e \in last.added : ~Qualified(e) /\ e \notin Tracked

\* C14: an update that returns treats a tracked entity as shown iff it is
\* showing, available at time, its sensor show is true or unset at time, and
\* its position and orientation are defined at time; the entity not shown
\* keeps its data as it is and, of its volume, only show is written.
C14_ShowRule ==
    [][(last'.op = "update" /\ ~last'.threw) =>
           \A e \in Tracked :
               /\ Shown(e, last'.time) =>
                      /\ hash'[e].defined
                      /\ volumes'[hash'[e].primitive].show
               /\ ~Shown(e, last'.time) =>
                      /\ hash'[e] = hash[e]
                      /\ hash[e].defined =>
                             volumes'[hash[e].primitive] =
                                 [volumes[hash[e].primitive] EXCEPT
                                      !.show = FALSE]]_vars

C14_Witness ==
    /\ Returned("update")
    /\ \E e \in Tracked :
           /\ ent[e].isShowing
           /\ ~isAvailable(e, last.time)
           /\ hash[e].defined
           /\ ~volumes[hash[e].primitive].show
           /\ volumes[hash[e].primitive].shape # ConstructedShape

\* C15: after an update at which an entity is shown, each shape parameter of
\* its volume is the entity's value when the property is set and the default
\* when it is unset: radius +infinity, both half angles pi/2, intersection
\* colour white, intersection width 1.0.
C15_ShapeDefaults ==
    Returned("update") =>
        \A e \in Tracked :
            Shown(e, last.time) =>
                LET shape == volumes[hash[e].primitive].shape
                    set == ent[e].sensor = "custom"
                IN /\ shape.radius = IF set THEN "r1" ELSE "POSITIVE_INFINITY"
                   /\ shape.xHalfAngle = IF set THEN "x1" ELSE "PI_OVER_TWO"
                   /\ shape.yHalfAngle = IF set THEN "y1" ELSE "PI_OVER_TWO"
                   /\ shape.intersectionColor = IF set THEN "color1" ELSE "WHITE"
                   /\ shape.intersectionWidth = IF set THEN "w1" ELSE "1.0"

C15_Witness ==
    /\ Returned("update")
    /\ \E e \in Tracked :
           /\ Shown(e, last.time)
           /\ ent[e].sensor = "custom"
           /\ volumes[hash[e].primitive].shape.radius = "r1"
    /\ \E e \in Tracked :
           /\ Shown(e, last.time)
           /\ ent[e].sensor = "default"
           /\ volumes[hash[e].primitive].shape.intersectionWidth = "1.0"

\* C16: after an update that returns, the volume of every shown entity has
\* the transform of the position and orientation sampled at that time, and
\* the cached pose is that sampled pose.
C16_TransformNeverStale ==
    Returned("update") =>
        \A e \in Tracked :
            Shown(e, last.time) =>
                /\ hash[e].defined
                /\ volumes[hash[e].primitive].modelMatrix =
                       [rotation |-> orientationAt(e, last.time),
                        translation |-> positionAt(e, last.time)]
                /\ hash[e].position = positionAt(e, last.time)
                /\ hash[e].orientation = orientationAt(e, last.time)

C16_Witness ==
    /\ Returned("update")
    /\ \E e \in Tracked :
           /\ Shown(e, last.time)
           /\ hash[e].primitive \in everHidden
           /\ hash[e].position = "p1"
           /\ volumes[hash[e].primitive].modelMatrix.translation = "p1"

\* C17: a notification whose changed group holds an entity that still
\* qualifies (and whose removed group does not hold it) keeps the entity
\* tracked and leaves its data, its volume and the volume's place in the
\* container as they are; with nothing removed and every changed entity
\* qualifying, the data, the volumes and the container are all unchanged.
C17_ChangedQualifyingKeepsData ==
    [][last'.op = "changed" =>
           /\ \A e \in last'.changed \ last'.removed :
                  Qualified(e) =>
                      /\ e \in Tracked'
                      /\ hash'[e] = hash[e]
                      /\ Tagged(e)' = Tagged(e)
                      /\ hash[e].defined =>
                             volumes'[hash[e].primitive] =
                                 volumes[hash[e].primitive]
           /\ (last'.removed = {} /\ \A e \in last'.changed : Qualified(e)) =>
                  UNCHANGED <<hash, primitives, volumes, nextVolume, addCount,
                              removeCount>>]_vars

C17_Witness ==
    /\ last.op = "changed"
    /\ last.removed = {}
    /\ last.torn = {}
    /\ \E e \in last.changed :
           /\ Qualified(e)
           /\ ent[e] # DefaultEntity
           /\ hash[e].defined
           /\ hash[e].primitive \in primitives

\* C18: the data and the visualizer's volumes in the container correspond one
\* to one, also after an update that an error cut short: every entity's data
\* names a live volume of the container tagged with the entity, and every
\* volume added and not removed is in the container and named by exactly one
\* entity's data.
C18_DataMatchesContainer ==
    /\ \A e \in Ids :
           hash[e].defined =>
               /\ hash[e].primitive \in primitives
               /\ volumes[hash[e].primitive].id = e
               /\ volumes[hash[e].primitive].state = "live"
    /\ \A p \in VolumeIds :
           (p \in primitives \/ addCount[p] > removeCount[p]) =>
               /\ p \in primitives
               /\ Cardinality({e \in Ids : hash[e].defined
                                              /\ hash[e].primitive = p}) = 1

C18_Witness ==
    /\ last.op = "update"
    /\ last.threw
    /\ last.missing = ""
    /\ phase = "live"
    /\ \E e \in Tracked :
           /\ hash[e].defined
           /\ volumes[hash[e].primitive].shape = ConstructedShape
    /\ \E e \in Tracked :
           /\ hash[e].defined
           /\ volumes[hash[e].primitive].shape # ConstructedShape

\* C19: once destroy() has run, the container holds no volume of the
\* visualizer, whatever notifications and calls follow.
C19_NothingAfterDestroy ==
    phase = "destroyed" =>
        /\ primitives = {}
        /\ nextVolume = 1 + Cardinality({p \in VolumeIds : removeCount[p] = 1})

C19_Witness ==
    /\ phase = "destroyed"
    /\ last.op = "changed"
    /\ \E e \in last.added : e \in Tracked
    /\ \E p \in VolumeIds : volumes[p].state = "destroyed"

\* C20: a notification acts as added, then changed, then removed: the tracked
\* entities afterwards are those tracked before and the qualifying ones of the
\* added and changed groups, less the changed ones that do not qualify, less
\* the removed group; an entity of the removed group that is also in the added
\* or changed group ends untracked, with no data and no volume in the
\* container.
C20_RemovalWins ==
    [][last'.op = "changed" =>
           /\ Tracked' =
                  ((Tracked \cup {e \in last'.added \cup last'.changed :
                                      Qualified(e)})
                       \ {e \in last'.changed : ~Qualified(e)})
                      \ last'.removed
           /\ \A e \in last'.removed \cap (last'.added \cup last'.changed) :
                  /\ e \notin Tracked'
                  /\ ~hash'[e].defined
                  /\ Tagged(e)' = {}]_vars

C20_Witness ==
    /\ last.op = "changed"
    /\ \E e \in last.removed \cap last.added, p \in last.torn :
           /\ Qualified(e)
           /\ e \notin Tracked
           /\ volumes[p].id = e

====
